---- MODULE Spec2Model ----
(***************************************************************************)
(* Model of the in-memory tree store of main.c: the tagged entities        *)
(* (Root / Node / Leaf), create_node, find_last_linear and create_leaf,    *)
(* at statement granularity.  Assertions are enabled (no NDEBUG): a failed *)
(* assert halts the program.                                               *)
(***************************************************************************)
EXTENDS Integers, Sequences, FiniteSets, TLC

\* ---------------------------------------------------------------- bounds
\* Entities (Nodes and Leaves) the structural specification may allocate.
MaxEnt == 3
\* Entities the data specification (full range of keys, lengths) may allocate.
MaxData == 1

\* ------------------------------------------------------- program constants
TagRoot == 1
TagNode == 2
TagLeaf == 3
KeySize == 128
PathSize == 256
KeyCopy == 127
NULL == 0
RootAddr == 1
\* Content of memory that malloc returned and nothing has written yet.
Indeterminate == 0 - 1

\* Heap cells: the root, then two cells per entity (a Leaf owns a value block).
Addr == 1..(1 + 2 * (IF MaxEnt > MaxData THEN MaxEnt ELSE MaxData))

Max(a, b) == IF a > b THEN a ELSE b
Min(a, b) == IF a < b THEN a ELSE b
Rep(n, b) == [i \in 1..n |-> b]

\* ------------------------------------------------------------ the inputs
\* C strings are given by their bytes before the terminating NUL.
Paths == {<<>>, <<47, 97>>}
Keys == {<<107, 49>>}
Counts == {0, 2}
ValueArgs == {200}
\* What the caller means to store: a byte sequence of the given length.
Values == {<<>>, <<1, 2>>, <<1, 0>>}
\* Memory found at the address the value argument is cast to: these bytes,
\* then NUL bytes.
MemImages == {<<1, 2>>, <<1, 0, 7>>}

\* The data specification: boundary keys, paths and lengths.
PathsData == {<<>>, Rep(PathSize - 1, 97), Rep(PathSize, 98)}
KeysData == {<<107, 49>>, Rep(KeyCopy, 107), Rep(KeySize, 108)}
CountsData == {0, 1, 3, 32767, 32768, 65535}
ValuesData == {<<>>, <<5>>, <<1, 2, 3>>, <<1, 0, 3>>}
MemImagesData == {<<1, 2, 3>>, <<1, 0, 3>>, <<5>>}

\* ------------------------------------------------------------- the state
VARIABLES
    heap,      \* Addr -> cell: free, a struct s_node, a struct s_leaf or a byte block
    pc,        \* the statement the running operation is at; "idle" between calls
    halt,      \* "no", "assert" (a failed assert) or "fault" (an invalid read)
    call,      \* the running (or last) call: its arguments and locals
    ret,       \* the value the last completed call returned
    pre,       \* the heap when the running (or last) call was made
    leafLog,   \* container -> the Leaves completed create_leaf calls made on it, in order
    nodeLog,   \* container -> the Nodes completed create_node calls made under it, in order
    drv        \* main: where it is, its locals, what it reported and its exit status

vars == <<heap, pc, halt, call, ret, pre, leafLog, nodeLog, drv>>

Free == [type |-> "free"]

\* A byte array of the given size, run-length coded: the bytes head, then the
\* byte tail up to the size; head never ends in the byte tail.
Fill(size, b) == [size |-> size, head |-> <<>>, tail |-> b]
Raw(size) == Fill(size, Indeterminate)
At(a, i) == IF i <= Len(a.head) THEN a.head[i] ELSE a.tail
Bytes(a) == [i \in 1..a.size |-> At(a, i)]
Pack(size, seq, b) ==
    LET keep == {i \in 1..Len(seq) : seq[i] # b}
        len == IF keep = {} THEN 0 ELSE CHOOSE i \in keep : \A j \in keep : j <= i
    IN  [size |-> size, head |-> SubSeq(seq, 1, len), tail |-> b]

\* struct s_node / struct s_leaf right after malloc: every field indeterminate.
RawNode ==
    [type |-> "node", north |-> Indeterminate, west |-> Indeterminate,
     east |-> Indeterminate, path |-> Raw(PathSize), tag |-> Indeterminate]

RawLeaf ==
    [type |-> "leaf", west |-> Indeterminate, east |-> Indeterminate,
     key |-> Raw(KeySize), value |-> Indeterminate,
     size |-> Indeterminate, tag |-> Indeterminate]

RawBlock(n) == [type |-> "bytes", data |-> Raw(n)]

\* zero(ptr, size): memset(ptr, 0, size) over the whole cell.
zero(cell) ==
    CASE cell.type = "node" ->
            [type |-> "node", north |-> NULL, west |-> NULL, east |-> NULL,
             path |-> Fill(PathSize, 0), tag |-> 0]
      [] cell.type = "leaf" ->
            [type |-> "leaf", west |-> NULL, east |-> NULL, key |-> Fill(KeySize, 0),
             value |-> NULL, size |-> 0, tag |-> 0]
      [] cell.type = "bytes" ->
            [type |-> "bytes", data |-> Fill(cell.data.size, 0)]

\* snprintf(dst, size, "%s", s): at most size-1 bytes of s, then a NUL; the
\* rest of dst is not written.
snprintf(dst, size, s) ==
    LET n == Min(Len(s), size - 1)
        e == Max(n + 1, Len(dst.head))
    IN  Pack(dst.size,
             [i \in 1..e |-> IF i <= n THEN s[i] ELSE IF i = n + 1 THEN 0 ELSE At(dst, i)],
             dst.tail)

\* strncpy(dst, s, n) from a C string s: exactly n bytes are written, the
\* bytes of s and then NULs; no NUL is added when s has n bytes or more.
strncpy(dst, s, n) ==
    LET whole == n >= dst.size
        e == IF whole THEN Min(Len(s), n) ELSE Max(n, Len(dst.head))
    IN  Pack(dst.size,
             [i \in 1..e |-> IF i > n THEN At(dst, i) ELSE IF i <= Len(s) THEN s[i] ELSE 0],
             IF whole THEN 0 ELSE dst.tail)

\* The C string at the start of a memory image, as far as strncpy(.., n)
\* reads it: the bytes before the first NUL among the first n.
CStr(m, n) ==
    LET k == Min(n, Len(m))
        nul == {i \in 1..k : m[i] = 0}
        len == IF nul = {} THEN k ELSE (CHOOSE i \in nul : \A j \in nul : i <= j) - 1
    IN  SubSeq(m, 1, len)

\* uint16_t count stored into int16_t size.
ToInt16(n) == IF n % 65536 >= 32768 THEN (n % 65536) - 65536 ELSE n % 65536

\* malloc: the lowest free cell.
FreeCells(h) == {a \in Addr : h[a].type = "free"}
malloc(h) == CHOOSE a \in FreeCells(h) : \A b \in FreeCells(h) : a <= b

Containers(h) == {a \in Addr : h[a].type = "node"}
Leaves(h) == {a \in Addr : h[a].type = "leaf"}
Entities(h) == Containers(h) \cup Leaves(h)

NoCall ==
    [op |-> "none", parent |-> NULL, str |-> <<>>, count |-> 0, value |-> 0,
     v |-> <<>>, new |-> NULL, leaf |-> NULL]

\* main is not running: the store is used through its functions.
NoDriver == [pc |-> "none", newNode |-> NULL, newLeaf |-> NULL, said |-> "", status |-> 0]

\* main, lines 168-172: the root is a zero-initialised global tagged TagRoot.
Init ==
    /\ heap = [a \in Addr |->
                 IF a = RootAddr
                 THEN [type |-> "node", north |-> NULL, west |-> NULL, east |-> NULL,
                       path |-> Fill(PathSize, 0), tag |-> TagRoot]
                 ELSE Free]
    /\ pc = "idle"
    /\ halt = "no"
    /\ call = NoCall
    /\ ret = NULL
    /\ pre = heap
    /\ leafLog = [a \in Addr |-> <<>>]
    /\ nodeLog = [a \in Addr |-> <<>>]
    /\ drv = NoDriver

Running(label) == pc = label /\ halt = "no"

Goto(label) == pc' = label /\ UNCHANGED <<halt, ret, pre, leafLog, nodeLog, drv>>

Halt(why) == halt' = why /\ UNCHANGED <<heap, pc, call, ret, pre, leafLog, nodeLog, drv>>

\* ------------------------------------------------------------ create_node
create_node_call(lim, paths) ==
    /\ Running("idle")
    /\ Cardinality(Entities(heap)) - 1 < lim
    /\ \E parent \in Containers(heap) \cup {NULL}, path \in paths :
          call' = [NoCall EXCEPT !.op = "create_node", !.parent = parent, !.str = path]
    /\ pc' = "cn21"
    /\ ret' = NULL
    /\ pre' = heap
    /\ UNCHANGED <<heap, halt, leafLog, nodeLog, drv>>

\* Variant of line 21: the assertion is compiled out.
create_node_assert_off ==
    /\ Running("cn21")
    /\ Goto("cn26") /\ UNCHANGED <<heap, call>>

\* line 21: assert(parent != NULL)
create_node_assert ==
    /\ Running("cn21")
    /\ IF call.parent = NULL
       THEN Halt("assert")
       ELSE Goto("cn26") /\ UNCHANGED <<heap, call>>

\* Variant of lines 26-46: the parent is linked before the result of malloc
\* is looked at.
create_node_malloc_linked ==
    /\ Running("cn26")
    /\ \/ /\ heap' = [heap EXCEPT ![malloc(heap)] = RawNode]
          /\ call' = [call EXCEPT !.new = malloc(heap)]
          /\ Goto("cn38")
       \/ /\ heap' = [heap EXCEPT ![call.parent].west = NULL]
          /\ pc' = "idle"
          /\ ret' = NULL
          /\ UNCHANGED <<halt, call, pre, leafLog, nodeLog, drv>>

\* lines 26-34: node = malloc(node_size); if (node == NULL) return NULL;
create_node_malloc ==
    /\ Running("cn26")
    /\ \/ /\ heap' = [heap EXCEPT ![malloc(heap)] = RawNode]
          /\ call' = [call EXCEPT !.new = malloc(heap)]
          /\ Goto("cn38")
       \/ /\ pc' = "idle"
          /\ ret' = NULL
          /\ UNCHANGED <<heap, halt, call, pre, leafLog, nodeLog, drv>>

\* line 38: zero((uint8_t *)node, node_size)
create_node_zero ==
    /\ Running("cn38")
    /\ heap' = [heap EXCEPT ![call.new] = zero(@)]
    /\ Goto("cn46") /\ UNCHANGED call

\* Variant of line 46: an existing child is kept.
create_node_link_keep ==
    /\ Running("cn46")
    /\ heap' = IF heap[call.parent].west = NULL
               THEN [heap EXCEPT ![call.parent].west = call.new]
               ELSE heap
    /\ Goto("cn47") /\ UNCHANGED call

\* line 46: parent->west = node
create_node_link ==
    /\ Running("cn46")
    /\ heap' = [heap EXCEPT ![call.parent].west = call.new]
    /\ Goto("cn47") /\ UNCHANGED call

\* line 47: node->tag = TagNode
create_node_tag ==
    /\ Running("cn47")
    /\ heap' = [heap EXCEPT ![call.new].tag = TagNode]
    /\ Goto("cn48") /\ UNCHANGED call

\* Variant of line 48: the north pointer is left as zero() set it.
create_node_north_skip ==
    /\ Running("cn48")
    /\ Goto("cn49") /\ UNCHANGED <<heap, call>>

\* line 48: node->north = parent
create_node_north ==
    /\ Running("cn48")
    /\ heap' = [heap EXCEPT ![call.new].north = call.parent]
    /\ Goto("cn49") /\ UNCHANGED call

\* line 49: node->east = NULL
create_node_east ==
    /\ Running("cn49")
    /\ heap' = [heap EXCEPT ![call.new].east = NULL]
    /\ Goto("cn53") /\ UNCHANGED call

\* Variant of line 53: the path is written into the parent.
create_node_path_parent ==
    /\ Running("cn53")
    /\ heap' = [heap EXCEPT ![call.parent].path = snprintf(@, PathSize, call.str)]
    /\ Goto("cn58") /\ UNCHANGED call

\* line 53: snprintf((char *)node->path, sizeof(node->path), "%s", (char *)path)
create_node_path ==
    /\ Running("cn53")
    /\ heap' = [heap EXCEPT ![call.new].path = snprintf(@, PathSize, call.str)]
    /\ Goto("cn58") /\ UNCHANGED call

\* line 58: return node
create_node_return ==
    /\ Running("cn58")
    /\ pc' = "idle"
    /\ ret' = call.new
    /\ nodeLog' = [nodeLog EXCEPT ![call.parent] = Append(@, call.new)]
    /\ UNCHANGED <<heap, halt, call, pre, leafLog, drv>>

\* ------------------------------------------------------- find_last_linear
RECURSIVE LastFrom(_, _)
\* lines 81-88: follow east until the Leaf whose east is NULL.
LastFrom(h, l) == IF h[l].east = NULL THEN l ELSE LastFrom(h, h[l].east)

\* Variant of lines 76-88: the first Leaf is returned without walking east.
find_last_linear_first(h, parent) == h[parent].east

\* lines 69-88: NULL for an empty list (reterr(NoError)), else the last Leaf.
find_last_linear(h, parent) ==
    IF h[parent].east = NULL THEN NULL ELSE LastFrom(h, h[parent].east)

RECURSIVE HopsFrom(_, _)
\* lines 81-86: the times the loop runs current_leaf = current_leaf->east.
HopsFrom(h, l) == IF h[l].east = NULL THEN 0 ELSE 1 + HopsFrom(h, h[l].east)

\* lines 69-88: the east links find_last_linear follows from Leaf to Leaf.
find_last_hops(h, parent) ==
    IF h[parent].east = NULL THEN 0 ELSE HopsFrom(h, h[parent].east)

\* find_last, as create_leaf calls it: the linear search.
find_last(h, parent) == find_last_linear(h, parent)

\* A call of find_last_linear by the user of the store, lines 61-89.
find_last_linear_call ==
    /\ Running("idle")
    /\ \E parent \in Containers(heap) \cup {NULL} :
          /\ call' = [NoCall EXCEPT !.op = "find_last_linear", !.parent = parent]
          /\ IF parent = NULL
             THEN pc' = "fl66" /\ halt' = "assert" /\ ret' = NULL
             ELSE pc' = "idle" /\ halt' = halt /\ ret' = find_last_linear(heap, parent)
    /\ pre' = heap
    /\ UNCHANGED <<heap, leafLog, nodeLog, drv>>

\* ------------------------------------------------------------ create_leaf
create_leaf_call(lim, keys, counts, values) ==
    /\ Running("idle")
    /\ Cardinality(Entities(heap)) - 1 < lim
    /\ \E parent \in Containers(heap) \cup {NULL}, key \in keys, count \in counts,
          value \in ValueArgs, v \in values :
          call' = [NoCall EXCEPT !.op = "create_leaf", !.parent = parent, !.str = key,
                                 !.count = count, !.value = value, !.v = v]
    /\ pc' = "cl97"
    /\ ret' = NULL
    /\ pre' = heap
    /\ UNCHANGED <<heap, halt, leafLog, nodeLog, drv>>

\* line 97: assert(parent != NULL)
create_leaf_assert ==
    /\ Running("cl97")
    /\ IF call.parent = NULL
       THEN Halt("assert")
       ELSE Goto("cl99") /\ UNCHANGED <<heap, call>>

\* line 99: leaf = find_last(parent)
create_leaf_find ==
    /\ Running("cl99")
    /\ call' = [call EXCEPT !.leaf = find_last(heap, call.parent)]
    /\ Goto("cl101") /\ UNCHANGED heap

\* line 101: new_leaf = malloc(size), which may return NULL
create_leaf_malloc ==
    /\ Running("cl101")
    /\ \/ /\ heap' = [heap EXCEPT ![malloc(heap)] = RawLeaf]
          /\ call' = [call EXCEPT !.new = malloc(heap)]
       \/ /\ call' = [call EXCEPT !.new = NULL]
          /\ UNCHANGED heap
    /\ Goto("cl102")

\* line 102: assert(new_leaf)
create_leaf_assert_new ==
    /\ Running("cl102")
    /\ IF call.new = NULL
       THEN Halt("assert")
       ELSE Goto("cl103") /\ UNCHANGED <<heap, call>>

\* Variant of lines 103-112: the new Leaf always becomes the head.
create_leaf_link_head ==
    /\ Running("cl103")
    /\ heap' = [heap EXCEPT ![call.parent].east = call.new]
    /\ Goto("cl114") /\ UNCHANGED call

\* lines 103-112: parent->east = new_leaf, or leaf->east = new_leaf
create_leaf_link ==
    /\ Running("cl103")
    /\ heap' = IF call.leaf = NULL
               THEN [heap EXCEPT ![call.parent].east = call.new]
               ELSE [heap EXCEPT ![call.leaf].east = call.new]
    /\ Goto("cl114") /\ UNCHANGED call

\* line 114: zero((uint8_t *)new_leaf, size)
create_leaf_zero ==
    /\ Running("cl114")
    /\ heap' = [heap EXCEPT ![call.new] = zero(@)]
    /\ Goto("cl115") /\ UNCHANGED call

\* line 115: new_leaf->tag = TagLeaf
create_leaf_tag ==
    /\ Running("cl115")
    /\ heap' = [heap EXCEPT ![call.new].tag = TagLeaf]
    /\ Goto("cl118") /\ UNCHANGED call

\* Variant of lines 118-128: every Leaf points back to the parent.
create_leaf_west_parent ==
    /\ Running("cl118")
    /\ heap' = [heap EXCEPT ![call.new].west = call.parent]
    /\ Goto("cl130") /\ UNCHANGED call

\* lines 118-128: new_leaf->west = parent, or new_leaf->west = leaf
create_leaf_west ==
    /\ Running("cl118")
    /\ heap' = [heap EXCEPT ![call.new].west =
                   IF call.leaf = NULL THEN call.parent ELSE call.leaf]
    /\ Goto("cl130") /\ UNCHANGED call

\* Variant of line 130: the whole field is the bound of the copy.
create_leaf_key_whole ==
    /\ Running("cl130")
    /\ heap' = [heap EXCEPT ![call.new].key = strncpy(@, call.str, KeySize)]
    /\ Goto("cl132") /\ UNCHANGED call

\* line 130: strncpy((char *)new_leaf->key, (char *)key, 127)
create_leaf_key ==
    /\ Running("cl130")
    /\ heap' = [heap EXCEPT ![call.new].key = strncpy(@, call.str, KeyCopy)]
    /\ Goto("cl132") /\ UNCHANGED call

\* line 132: new_leaf->value = malloc(count), which may return NULL
create_leaf_malloc_value ==
    /\ Running("cl132")
    /\ \/ heap' = [heap EXCEPT ![malloc(heap)] = RawBlock(call.count),
                               ![call.new].value = malloc(heap)]
       \/ heap' = [heap EXCEPT ![call.new].value = NULL]
    /\ Goto("cl133") /\ UNCHANGED call

\* line 133: zero(new_leaf->value, count), whose assert(ptr != NULL) may fail
create_leaf_zero_value ==
    /\ Running("cl133")
    /\ IF heap[call.new].value = NULL
       THEN Halt("assert")
       ELSE /\ heap' = [heap EXCEPT ![heap[call.new].value] = zero(@)]
            /\ Goto("cl134") /\ UNCHANGED call

\* line 134: assert(new_leaf->value)
create_leaf_assert_value ==
    /\ Running("cl134")
    /\ IF heap[call.new].value = NULL
       THEN Halt("assert")
       ELSE Goto("cl136") /\ UNCHANGED <<heap, call>>

\* line 136: strncpy((char *)new_leaf->value, (char *)value, count).  The
\* uint8_t value is cast to an address: reading it is undefined, so either
\* the read faults or it finds some memory image there.  Nothing is read
\* when count is 0.
create_leaf_copy(images) ==
    /\ Running("cl136")
    /\ \/ /\ call.count = 0
          /\ Goto("cl137") /\ UNCHANGED <<heap, call>>
       \/ /\ call.count > 0
          /\ \E m \in images :
                heap' = [heap EXCEPT ![heap[call.new].value].data =
                            strncpy(@, CStr(m, call.count), call.count)]
          /\ Goto("cl137") /\ UNCHANGED call
       \/ /\ call.count > 0
          /\ Halt("fault")

\* line 137: new_leaf->size = count (uint16_t into int16_t)
create_leaf_size ==
    /\ Running("cl137")
    /\ heap' = [heap EXCEPT ![call.new].size = ToInt16(call.count)]
    /\ Goto("cl139") /\ UNCHANGED call

\* Variant of line 139: return new_leaf.
create_leaf_return_new ==
    /\ Running("cl139")
    /\ pc' = "idle"
    /\ ret' = call.new
    /\ leafLog' = [leafLog EXCEPT ![call.parent] = Append(@, call.new)]
    /\ UNCHANGED <<heap, halt, call, pre, nodeLog, drv>>

\* line 139: return leaf
create_leaf_return ==
    /\ Running("cl139")
    /\ pc' = "idle"
    /\ ret' = call.leaf
    /\ leafLog' = [leafLog EXCEPT ![call.parent] = Append(@, call.new)]
    /\ UNCHANGED <<heap, halt, call, pre, nodeLog, drv>>

\* --------------------------------------------------------- specifications
\* The statements of create_node and create_leaf.
Body(images) ==
    \/ create_node_assert
    \/ create_node_malloc
    \/ create_node_zero
    \/ create_node_link
    \/ create_node_tag
    \/ create_node_north
    \/ create_node_east
    \/ create_node_path
    \/ create_node_return
    \/ create_leaf_assert
    \/ create_leaf_find
    \/ create_leaf_malloc
    \/ create_leaf_assert_new
    \/ create_leaf_link
    \/ create_leaf_zero
    \/ create_leaf_tag
    \/ create_leaf_west
    \/ create_leaf_key
    \/ create_leaf_malloc_value
    \/ create_leaf_zero_value
    \/ create_leaf_assert_value
    \/ create_leaf_copy(images)
    \/ create_leaf_size
    \/ create_leaf_return

Steps(images) ==
    \/ find_last_linear_call
    \/ Body(images)

\* The structure: many entities, few payloads.
Next ==
    \/ create_node_call(MaxEnt, Paths)
    \/ create_leaf_call(MaxEnt, Keys, Counts, Values)
    \/ Steps(MemImages)

Spec == Init /\ [][Next]_vars

\* The program runs: a statement that can be executed is executed.
SpecLive == Spec /\ WF_vars(Next)

\* The data: few entities, boundary keys, paths, lengths and values.
NextData ==
    \/ create_node_call(MaxData, PathsData)
    \/ create_leaf_call(MaxData, KeysData, CountsData, ValuesData)
    \/ Steps(MemImagesData)

SpecData == Init /\ [][NextData]_vars

\* ------------------------------------------------------------------ main
\* The longest memory image the driver's run is checked with.
MaxImage == 4
\* Memory found at address 200: every string of up to MaxImage bytes 1 or 2.
MemImagesMain == UNION {[1..n -> {1, 2}] : n \in 0..MaxImage}

\* "sample_key", line 198.
SampleKey == <<115, 97, 109, 112, 108, 101, 95, 107, 101, 121>>

\* Tree root, line 148: static storage, all zero before main runs.
InitMain ==
    /\ heap = [a \in Addr |->
                 IF a = RootAddr
                 THEN [type |-> "node", north |-> NULL, west |-> NULL, east |-> NULL,
                       path |-> Fill(PathSize, 0), tag |-> 0]
                 ELSE Free]
    /\ pc = "idle"
    /\ halt = "no"
    /\ call = NoCall
    /\ ret = NULL
    /\ pre = heap
    /\ leafLog = [a \in Addr |-> <<>>]
    /\ nodeLog = [a \in Addr |-> <<>>]
    /\ drv = [NoDriver EXCEPT !.pc = "m168"]

At_main(label) == drv.pc = label /\ Running("idle")

\* A statement of main that writes a field of the root.
RootWrite(label, h, next) ==
    /\ At_main(label)
    /\ heap' = h
    /\ drv' = [drv EXCEPT !.pc = next]
    /\ UNCHANGED <<pc, halt, call, ret, pre, leafLog, nodeLog>>

\* line 168: root.node.north = NULL
main_root_north == RootWrite("m168", [heap EXCEPT ![RootAddr].north = NULL], "m169")

\* line 169: root.node.west = NULL
main_root_west == RootWrite("m169", [heap EXCEPT ![RootAddr].west = NULL], "m170")

\* line 170: root.node.east = NULL
main_root_east == RootWrite("m170", [heap EXCEPT ![RootAddr].east = NULL], "m171")

\* line 171: root.node.tag = TagRoot
main_root_tag == RootWrite("m171", [heap EXCEPT ![RootAddr].tag = TagRoot], "m172")

\* line 172: root.node.path[0] = '\0'
main_root_path ==
    RootWrite("m172",
              [heap EXCEPT ![RootAddr].path =
                  Pack(PathSize, [i \in 1..Max(1, Len(@.head)) |->
                                     IF i = 1 THEN 0 ELSE At(@, i)], @.tail)],
              "m182")

\* line 182: create_node(rootNodeAddress, (int8_t *)root.node.path) is called
main_create_node ==
    /\ At_main("m182")
    /\ call' = [NoCall EXCEPT !.op = "create_node", !.parent = RootAddr,
                              !.str = CStr(Bytes(heap[RootAddr].path), PathSize)]
    /\ pc' = "cn21"
    /\ ret' = NULL
    /\ pre' = heap
    /\ drv' = [drv EXCEPT !.pc = "m185"]
    /\ UNCHANGED <<heap, halt, leafLog, nodeLog>>

\* lines 182-191: newNode = the result; if (newNode == NULL) return 1
main_check_node ==
    /\ At_main("m185")
    /\ drv' = IF ret = NULL
              THEN [drv EXCEPT !.pc = "exit", !.said = "node", !.status = 1]
              ELSE [drv EXCEPT !.pc = "m198", !.newNode = ret]
    /\ UNCHANGED <<heap, pc, halt, call, ret, pre, leafLog, nodeLog>>

\* line 198: create_leaf(newNode, "sample_key", 10, 200) is called
main_create_leaf ==
    /\ At_main("m198")
    /\ call' = [NoCall EXCEPT !.op = "create_leaf", !.parent = drv.newNode,
                              !.str = SampleKey, !.count = 10, !.value = 200]
    /\ pc' = "cl97"
    /\ ret' = NULL
    /\ pre' = heap
    /\ drv' = [drv EXCEPT !.pc = "m201"]
    /\ UNCHANGED <<heap, halt, leafLog, nodeLog>>

\* lines 198-231: newLeaf = the result; if (newLeaf == NULL) the failure is
\* reported, newNode is freed and main returns 1; else newLeaf and newNode
\* are freed and main returns 0.
main_check_leaf ==
    /\ At_main("m201")
    /\ IF ret = NULL
       THEN /\ heap' = [heap EXCEPT ![drv.newNode] = Free]
            /\ drv' = [drv EXCEPT !.pc = "exit", !.said = "leaf", !.status = 1,
                                  !.newNode = NULL]
       ELSE /\ heap' = [heap EXCEPT ![ret] = Free, ![drv.newNode] = Free]
            /\ drv' = [drv EXCEPT !.pc = "exit", !.status = 0,
                                  !.newNode = NULL, !.newLeaf = NULL]
    /\ UNCHANGED <<pc, halt, call, ret, pre, leafLog, nodeLog>>

NextMain ==
    \/ main_root_north
    \/ main_root_west
    \/ main_root_east
    \/ main_root_tag
    \/ main_root_path
    \/ main_create_node
    \/ main_check_node
    \/ main_create_leaf
    \/ main_check_leaf
    \/ Body(MemImagesMain)

SpecMain == InitMain /\ [][NextMain]_vars

\* ------------------------------------------------------------ properties
Idle == pc = "idle" /\ halt = "no"

\* A call of op has returned and nothing was called since.
Returned(op) == Idle /\ call.op = op

Last(seq) == seq[Len(seq)]

RECURSIVE WestFrom(_, _, _)
\* The Nodes met by following west from n, n excluded.
WestFrom(h, n, fuel) ==
    IF fuel = 0 \/ h[n].west \notin Containers(h) THEN {}
    ELSE {h[n].west} \cup WestFrom(h, h[n].west, fuel - 1)

RECURSIVE Closure(_, _)
\* The entities reachable from the set s through west (of a Node) and east.
Closure(h, s) ==
    LET next == s \cup {h[a].east : a \in s}
                  \cup {h[a].west : a \in {b \in s : h[b].type = "node"}}
        more == next \cap Entities(h)
    IN  IF more = s THEN s ELSE Closure(h, more)

Reachable(h) == Closure(h, {RootAddr})

\* The bytes of a byte array up to its first NUL.
StrOf(a) == CStr(Bytes(a), a.size)

\* C1: at rest, the Leaves that completed create_leaf calls made on a
\* container are its list in the order made: the container's east is the
\* first, each one's east is the next, and the last one's east is NULL.
C1_ChainInAppendOrder ==
    Idle =>
      \A c \in Containers(heap) :
        LET log == leafLog[c]
        IN  IF log = <<>> THEN heap[c].east = NULL
            ELSE /\ heap[c].east = log[1]
                 /\ \A i \in 1..(Len(log) - 1) : heap[log[i]].east = log[i + 1]
                 /\ heap[Last(log)].east = NULL

C1_Witness ==
    /\ Idle
    /\ \E c \in Containers(heap) : Len(leafLog[c]) >= 3

\* C2: right after create_node(p, s) returned a Node, the Node's north is p,
\* p's west is the Node, the Node's west and east are NULL and its tag is
\* TagNode.
C2_CreateNodePost ==
    (Returned("create_node") /\ ret # NULL) =>
      /\ heap[ret].type = "node"
      /\ heap[ret].north = call.parent
      /\ heap[call.parent].west = ret
      /\ heap[ret].west = NULL
      /\ heap[ret].east = NULL
      /\ heap[ret].tag = TagNode

C2_Witness ==
    /\ Returned("create_node") /\ ret # NULL
    /\ call.parent # RootAddr
    /\ pre[call.parent].west # NULL

\* C3: find_last_linear on a container returns NULL when no create_leaf
\* call completed on it, else the Leaf of the last one, and leaves the heap
\* as it was.
C3_FindLast ==
    Returned("find_last_linear") =>
      /\ ret = (IF leafLog[call.parent] = <<>> THEN NULL ELSE Last(leafLog[call.parent]))
      /\ heap = pre

C3_Witness ==
    /\ Returned("find_last_linear")
    /\ Len(leafLog[call.parent]) >= 2
    /\ \E c \in Containers(heap) : leafLog[c] = <<>>

\* C4: create_leaf is all-or-nothing: when one of its two allocations failed
\* no entity that existed before the call has changed and the new Leaf is not
\* reachable from the root; when it returned, the new Leaf is in the
\* container's list, tagged, with its key, value block and size set.
C4_AllOrNothing ==
    /\ (call.op = "create_leaf" /\ halt = "assert" /\ pc \in {"cl102", "cl133"}) =>
          /\ \A a \in Entities(pre) : heap[a] = pre[a]
          /\ call.new \notin Reachable(heap)
    /\ Returned("create_leaf") =>
          /\ find_last_linear(heap, call.parent) = call.new
          /\ heap[call.new].tag = TagLeaf
          /\ StrOf(heap[call.new].key) = CStr(call.str, KeyCopy)
          /\ heap[call.new].value \in Addr
          /\ heap[call.new].size = call.count

\* C5: in every state, also inside create_node and create_leaf, an entity
\* reachable from the root has its tag set.
C5_ReachableTagged ==
    \A a \in Reachable(heap) : heap[a].tag \in {TagRoot, TagNode, TagLeaf}

C7_BackReferences ==
    \A c \in Containers(heap) :
      LET log == leafLog[c]
      IN  \A i \in 1..Len(log) :
            heap[log[i]].west = (IF i = 1 THEN c ELSE log[i - 1])

C7_Witness ==
    /\ pc = "cl139"
    /\ Len(leafLog[call.parent]) >= 2

\* C8: at rest, a parent under which create_node succeeded twice or more has
\* the last Node made as its west; the earlier ones are not met by following
\* west from the parent, and their north is still the parent.
C8_Overwrite ==
    Idle =>
      \A p \in Containers(heap) :
        LET log == nodeLog[p]
        IN  Len(log) >= 2 =>
              /\ heap[p].west = Last(log)
              /\ \A i \in 1..(Len(log) - 1) :
                    /\ log[i] \notin WestFrom(heap, p, Cardinality(Addr))
                    /\ heap[log[i]].north = p

C8_Witness ==
    /\ Idle
    /\ \E p \in Containers(heap) :
          /\ Len(nodeLog[p]) >= 2
          /\ nodeLog[nodeLog[p][1]] # <<>>

\* C9: a Leaf that create_leaf returned for length L has size L, read as an
\* integer, and a value block of L bytes.
C9_SizeIsLength ==
    Returned("create_leaf") =>
      /\ heap[call.new].size = call.count
      /\ heap[heap[call.new].value].data.size = call.count

\* C10: a Leaf that create_leaf returned for a key within the capacity and a
\* value v of L bytes has the key, size L and a value block equal to v.
C10_RoundTrip ==
    (Returned("create_leaf") /\ Len(call.str) <= KeyCopy /\ Len(call.v) = call.count) =>
      /\ StrOf(heap[call.new].key) = call.str
      /\ heap[call.new].size = call.count
      /\ Bytes(heap[heap[call.new].value].data) = call.v

\* C11: when create_node returned NULL, its allocation having failed, the
\* heap is as it was when the call was made: the parent's west is what it
\* was and the same entities are reachable from the root.
C11_CreateNodeFailure ==
    (Returned("create_node") /\ ret = NULL) =>
      /\ heap = pre
      /\ heap[call.parent].west = pre[call.parent].west
      /\ Reachable(heap) = Reachable(pre)
      /\ call.new = NULL

C11_Witness ==
    /\ Returned("create_node") /\ ret = NULL
    /\ pre[call.parent].west # NULL

\* The first n bytes of the array a are those of s and the next one is NUL.
Stores(a, s, n) ==
    /\ \A i \in 1..n : At(a, i) = s[i]
    /\ n < a.size
    /\ At(a, n + 1) = 0

\* C12: the path of a Node create_node returned is the first min(len, 255)
\* bytes of the input and then a NUL, within the 256 bytes of the field; the
\* key of a Leaf create_leaf returned is the first min(len, 127) bytes of the
\* input and then a NUL, within the 128 bytes of the field; no operation
\* halts at the copy of the string.
C12_BoundedStrings ==
    /\ (Returned("create_node") /\ ret # NULL) =>
          /\ heap[ret].path.size = PathSize
          /\ Stores(heap[ret].path, call.str, Min(Len(call.str), PathSize - 1))
          /\ StrOf(heap[ret].path) = SubSeq(call.str, 1, Min(Len(call.str), PathSize - 1))
    /\ Returned("create_leaf") =>
          /\ heap[call.new].key.size = KeySize
          /\ Stores(heap[call.new].key, call.str, Min(Len(call.str), KeySize - 1))
          /\ StrOf(heap[call.new].key) = SubSeq(call.str, 1, Min(Len(call.str), KeySize - 1))
    /\ halt # "no" => pc \notin {"cn53", "cl130"}

C12_Witness ==
    \/ /\ Returned("create_node") /\ ret # NULL
       /\ Len(call.str) > PathSize - 1
    \/ /\ Returned("create_leaf")
       /\ Len(call.str) > KeySize - 1

\* A field of the entity holds what malloc left there.
Undefined(cell) ==
    \/ cell.west = Indeterminate
    \/ cell.east = Indeterminate
    \/ cell.tag = Indeterminate
    \/ /\ cell.type = "node"
       /\ (cell.north = Indeterminate \/ \E i \in 1..PathSize : At(cell.path, i) = Indeterminate)
    \/ /\ cell.type = "leaf"
       /\ \/ cell.value = Indeterminate
          \/ cell.size = Indeterminate
          \/ \E i \in 1..KeySize : At(cell.key, i) = Indeterminate

\* C13: no entity reachable from the root has a field of undefined content,
\* in any state; and when an operation returned, what it did not set in the
\* new entity is zero: a new Node's west, the bytes after its path, a new
\* Leaf's east, the bytes after its key and the rest of its value block.
C13_ZeroBeforeUse ==
    /\ \A a \in Reachable(heap) : ~Undefined(heap[a])
    /\ (Returned("create_node") /\ ret # NULL) =>
          /\ heap[ret].west = NULL
          /\ heap[ret].path.tail = 0
    /\ Returned("create_leaf") =>
          /\ heap[call.new].east = NULL
          /\ heap[call.new].key.tail = 0
          /\ heap[heap[call.new].value].data.tail = 0

\* The calls that were given a NULL container.
NullCall == call.op # "none" /\ call.parent = NULL

\* C14: a call of create_node, create_leaf or find_last_linear with a NULL
\* container never gets past its first assert: it allocates nothing, the heap
\* stays the heap of the call, it does not return, and its only step is the
\* halt; zero() on a NULL buffer halts and writes nothing.
C14_NullHalts ==
    /\ [](NullCall =>
            /\ pc \in {"cn21", "cl97", "fl66"}
            /\ heap = pre
            /\ call.new = NULL)
    /\ [][(NullCall /\ halt = "no") => (halt' = "assert" /\ heap' = heap /\ pc' = pc)]_vars
    /\ [][(Running("cl133") /\ heap[call.new].value = NULL)
            => (halt' = "assert" /\ heap' = heap /\ pc' = pc)]_vars

C14_Witness ==
    /\ NullCall
    /\ halt = "assert"
    /\ Cardinality(Entities(heap)) >= 3

RECURSIVE NorthSteps(_, _, _)
\* The number of north links from n to the root; -1 when the root is not met.
NorthSteps(h, n, fuel) ==
    IF n = RootAddr THEN 0
    ELSE IF fuel = 0 \/ n \notin Containers(h) THEN 0 - 1
    ELSE LET k == NorthSteps(h, h[n].north, fuel - 1)
         IN  IF k < 0 THEN k ELSE k + 1

\* C15: the root has no north and the tag TagRoot in every state; the north
\* of a Node create_node returned is the parent of that call in every later
\* state; at rest every container meets the root by following north, and the
\* north of a container's west is that container.
C15_ParentLinks ==
    /\ heap[RootAddr].north = NULL
    /\ heap[RootAddr].tag = TagRoot
    /\ \A p \in Containers(heap) :
          \A i \in 1..Len(nodeLog[p]) :
             /\ heap[nodeLog[p][i]].north = p
             /\ p # NULL
    /\ Idle =>
          \A c \in Containers(heap) :
             /\ c # RootAddr => heap[c].north \in Containers(heap)
             /\ NorthSteps(heap, c, Cardinality(Addr)) >= 0
             /\ heap[c].west # NULL => heap[heap[c].west].north = c

C15_Witness ==
    /\ Idle
    /\ \E c \in Containers(heap) :
          /\ NorthSteps(heap, c, Cardinality(Addr)) >= 2
          /\ Len(nodeLog[heap[c].north]) >= 2

\* The cells in use.
Used(h) == {a \in Addr : h[a].type # "free"}

\* C16: a create_leaf that returned changed, among the cells in use at the
\* call, only the east of the container (its list being empty) or of the
\* list's last Leaf; a create_node that returned a Node changed only the
\* west of the parent.
C16_Frame ==
    /\ Returned("create_leaf") =>
          LET log == leafLog[call.parent]
              at == IF Len(log) = 1 THEN call.parent ELSE log[Len(log) - 1]
          IN  /\ pre[at].east = NULL
              /\ heap[at] = [pre[at] EXCEPT !.east = call.new]
              /\ heap[at] # pre[at]
              /\ call.new \notin Used(pre)
              /\ \A a \in Used(pre) \ {at} : heap[a] = pre[a]
    /\ (Returned("create_node") /\ ret # NULL) =>
          /\ heap[call.parent] = [pre[call.parent] EXCEPT !.west = ret]
          /\ ret \notin Used(pre)
          /\ \A a \in Used(pre) \ {call.parent} : heap[a] = pre[a]

C16_Witness ==
    /\ Returned("create_leaf")
    /\ Len(leafLog[call.parent]) >= 2
    /\ call.parent # RootAddr
    /\ heap[call.parent].east = pre[call.parent].east

RECURSIVE ChainFrom(_, _, _)
\* The Leaves met from l by following east, as long as they are Leaves.
ChainFrom(h, l, fuel) ==
    IF fuel = 0 \/ l \notin Leaves(h) THEN <<>>
    ELSE <<l>> \o ChainFrom(h, h[l].east, fuel - 1)

Chain(h, c) == ChainFrom(h, h[c].east, Cardinality(Addr) + 1)

\* C17: at rest every container's list is finite, without a repeated Leaf,
\* and ends in a Leaf whose east is NULL; every Leaf is in the list of one
\* container only, once.
C17_ChainsPartition ==
    Idle =>
      /\ \A c \in Containers(heap) :
            LET ch == Chain(heap, c)
            IN  /\ Len(ch) <= Cardinality(Leaves(heap))
                /\ \A i, j \in 1..Len(ch) : ch[i] = ch[j] => i = j
                /\ IF ch = <<>> THEN heap[c].east = NULL
                   ELSE heap[Last(ch)].east = NULL
      /\ \A l \in Leaves(heap) :
            Cardinality({c \in Containers(heap) :
                           \E i \in 1..Len(Chain(heap, c)) : Chain(heap, c)[i] = l}) = 1

C17_Witness ==
    /\ Idle
    /\ \E c, d \in Containers(heap) :
          /\ c # d
          /\ Len(Chain(heap, c)) >= 1
          /\ Len(Chain(heap, d)) >= 1

\* C18: when main has ended and create_leaf had completed, main returned 0
\* and reported no failure; main reports the failure of the Leaf only when
\* no Leaf was made.
C18_DriverSucceeds ==
    /\ (drv.pc = "exit" /\ \E c \in Addr : leafLog[c] # <<>>) =>
          /\ drv.status = 0
          /\ drv.said = ""
    /\ drv.said = "leaf" => \A c \in Addr : leafLog[c] = <<>>

\* C19: at rest find_last_linear follows, on every container, one east link
\* less than the Leaves made on it (none for an empty list), and inside
\* create_leaf it has followed that many; a create_leaf that is running
\* comes to return or to halt.
C19_FindLastTerminates ==
    /\ [](Idle =>
            \A c \in Containers(heap) :
               find_last_hops(heap, c) = Max(Len(leafLog[c]), 1) - 1)
    /\ [](Running("cl101") =>
            /\ find_last_hops(heap, call.parent) = Max(Len(leafLog[call.parent]), 1) - 1
            /\ call.leaf = find_last_linear(heap, call.parent))
    /\ ((call.op = "create_leaf" /\ pc = "cl99") ~> (Idle \/ halt # "no"))

C19_Witness ==
    /\ Returned("create_leaf")
    /\ find_last_hops(pre, call.parent) >= 1
    /\ find_last_hops(heap, call.parent) >= 2

====
